---- MODULE Spec2Model ----
(***************************************************************************)
(* Response normalisation of the Remote-GUI backend                        *)
(* (src/CLI/local-cli-backend/parsers.py): parse_response and the two      *)
(* table parsers it calls, parse_table and parse_table_fixed.              *)
(*                                                                         *)
(* A text is a sequence of one-character strings, so that strip, split,    *)
(* splitlines, slicing and substring tests are computed character by       *)
(* character as Python computes them.  A list index or section bound is    *)
(* 0-based as in the source; Slice(s, a, b) is Python's s[a:b].            *)
(***************************************************************************)
EXTENDS Integers, Sequences, FiniteSets, TLC

----------------------------------------------------------------------------
(* Python built-ins used by the parsers *)

SetMin(S) == CHOOSE x \in S : \A y \in S : x <= y
SetMax(S) == CHOOSE x \in S : \A y \in S : x >= y

Range(s) == {s[i] : i \in 1..Len(s)}

\* str.isspace for one character (the whitespace str.strip and str.split remove)
IsSpace(c) == c \in {" ", "\n", "\r", "\t"}

\* s[a:b] for 0 <= a, 0 <= b: clamps to the length, never raises
Slice(s, a, b) == SubSeq(s, a + 1, IF b < Len(s) THEN b ELSE Len(s))

\* s[a:]
SliceFrom(s, a) == SubSeq(s, a + 1, Len(s))

\* str.strip()
str_strip(s) ==
    LET ns == {i \in 1..Len(s) : ~IsSpace(s[i])}
    IN  IF ns = {} THEN <<>> ELSE SubSeq(s, SetMin(ns), SetMax(ns))

\* sub in s, for a non-empty text sub
str_contains(s, sub) ==
    \E i \in 1..(Len(s) - Len(sub) + 1) : SubSeq(s, i, i + Len(sub) - 1) = sub

\* str.splitlines(): breaks at \n, \r and \r\n; no empty last line
RECURSIVE str_splitlines(_)
str_splitlines(s) ==
    IF s = <<>> THEN <<>>
    ELSE LET brk == {i \in 1..Len(s) : s[i] \in {"\n", "\r"}}
         IN  IF brk = {} THEN <<s>>
             ELSE LET i == SetMin(brk)
                      skip == IF s[i] = "\r" /\ i < Len(s) /\ s[i + 1] = "\n"
                              THEN 2 ELSE 1
                  IN  <<SubSeq(s, 1, i - 1)>>
                          \o str_splitlines(SubSeq(s, i + skip, Len(s)))

\* str.split(c) for a one-character separator: always at least one part
RECURSIVE str_split(_, _)
str_split(s, c) ==
    LET idx == {i \in 1..Len(s) : s[i] = c}
    IN  IF idx = {} THEN <<s>>
        ELSE <<SubSeq(s, 1, SetMin(idx) - 1)>>
                 \o str_split(SubSeq(s, SetMin(idx) + 1, Len(s)), c)

\* len(s.split()): the number of whitespace-separated words
NumWords(s) ==
    Cardinality({i \in 1..Len(s) :
                    ~IsSpace(s[i]) /\ (i = 1 \/ IsSpace(s[i - 1]))})

\* str.replace(old, new) for a one-character new and an old of 1 or 2 characters
RECURSIVE str_replace(_, _, _)
str_replace(s, old, new) ==
    IF Len(s) < Len(old) THEN s
    ELSE IF SubSeq(s, 1, Len(old)) = old
         THEN <<new>> \o str_replace(SubSeq(s, Len(old) + 1, Len(s)), old, new)
         ELSE <<s[1]>> \o str_replace(Tail(s), old, new)

\* '\n'.join(lines)
RECURSIVE str_join(_)
str_join(ls) ==
    IF ls = <<>> THEN <<>>
    ELSE IF Len(ls) = 1 THEN ls[1]
         ELSE ls[1] \o <<"\n">> \o str_join(Tail(ls))

\* [f(x) for x in s]
StripAll(parts) == [i \in 1..Len(parts) |-> str_strip(parts[i])]

\* [h for h in headers if h]
RECURSIVE NonEmpty(_)
NonEmpty(parts) ==
    IF parts = <<>> THEN <<>>
    ELSE IF parts[1] = <<>> THEN NonEmpty(Tail(parts))
         ELSE <<parts[1]>> \o NonEmpty(Tail(parts))

\* dict(zip(keys, vals)): zip stops at the shorter list, a repeated key keeps
\* its last value
dict_zip(keys, vals) ==
    LET n == IF Len(keys) < Len(vals) THEN Len(keys) ELSE Len(vals)
    IN  [k \in {keys[i] : i \in 1..n} |->
            vals[SetMax({i \in 1..n : keys[i] = k})]]

----------------------------------------------------------------------------
(* Section detection, shared by parse_table (fixed = FALSE) and            *)
(* parse_table_fixed (fixed = TRUE): the two loops differ only in the      *)
(* test of the separator line.                                             *)

Pipe   == <<"|">>
Dashes == <<"-", "-", "-">>

\* line i (0-based) opens a section whose header is line i-1
IsCandidate(lines, i, fixed) ==
    /\ lines[i + 1] # <<>>
    /\ \/ str_contains(lines[i + 1], Pipe)
       \/ fixed /\ str_contains(lines[i + 1], Dashes)
    /\ i > 0
    /\ NumWords(lines[i]) > 1

\* for i, line in enumerate(lines): ...  with current_section_start = cur
RECURSIVE ScanSections(_, _, _, _, _)
ScanSections(lines, i, cur, secs, fixed) ==
    IF i >= Len(lines) THEN [cur |-> cur, secs |-> secs]
    ELSE IF IsCandidate(lines, i, fixed)
         THEN ScanSections(lines, i + 1, i - 1,
                           IF cur >= 0 THEN Append(secs, <<cur, i - 1>>) ELSE secs,
                           fixed)
         ELSE ScanSections(lines, i + 1, cur, secs, fixed)

\* without the elif of the loop: a line starting with "{" does not end the
\* section
SectionEnd_NoBrace(lines, cur) ==
    LET blank(i) == str_strip(lines[i + 1]) = <<>>
        ends == {i \in (cur + 2)..(Len(lines) - 1) :
                    blank(i) /\ \E j \in (i + 1)..(Len(lines) - 1) : ~blank(j)}
    IN  IF ends = {} THEN Len(lines) ELSE SetMin(ends)

\* where the last section ends: the first blank line with content after it, or
\* the first line starting with "{", else the end of the text
SectionEnd(lines, cur) ==
    LET blank(i) == str_strip(lines[i + 1]) = <<>>
        ends == {i \in (cur + 2)..(Len(lines) - 1) :
                    \/ blank(i) /\ \E j \in (i + 1)..(Len(lines) - 1) : ~blank(j)
                    \/ ~blank(i) /\ str_strip(lines[i + 1])[1] = "{"}
    IN  IF ends = {} THEN Len(lines) ELSE SetMin(ends)

table_sections(lines, fixed) ==
    LET r == ScanSections(lines, 0, -1, <<>>, fixed)
    IN  IF r.cur >= 0
        THEN Append(r.secs, <<r.cur, SectionEnd(lines, r.cur)>>)
        ELSE r.secs

\* the text after the last section, leading blank lines removed
RECURSIVE DropLeadingBlank(_)
DropLeadingBlank(ls) ==
    IF ls # <<>> /\ str_strip(ls[1]) = <<>> THEN DropLeadingBlank(Tail(ls)) ELSE ls

\* table_sections[0] in place of table_sections[-1]
additional_content_FirstSection(lines, secs) ==
    str_join(DropLeadingBlank(SliceFrom(lines, secs[1][2])))

additional_content(lines, secs) ==
    str_join(DropLeadingBlank(SliceFrom(lines, secs[Len(secs)][2])))

\* a decoder that also accepts a row with too few fields
RowMatches_AtMost(parts, headers) == Len(parts) <= Len(headers)

\* the test under which a decoded row becomes a record
RowMatches(parts, headers) == Len(parts) = Len(headers)

\* the lines section_lines[2:] of every section, in section order
RECURSIVE SectionBodies(_, _)
SectionBodies(lines, secs) ==
    IF secs = <<>> THEN <<>>
    ELSE SliceFrom(Slice(lines, secs[1][1], secs[1][2]), 2)
             \o SectionBodies(lines, Tail(secs))

----------------------------------------------------------------------------
(* parse_table: the pipe-delimited table *)

\* while parts and not parts[-1]: parts.pop()
RECURSIVE DropTrailingEmpty(_)
DropTrailingEmpty(parts) ==
    IF parts # <<>> /\ parts[Len(parts)] = <<>>
    THEN DropTrailingEmpty(SubSeq(parts, 1, Len(parts) - 1))
    ELSE parts

pipe_headers(header_line) == NonEmpty(StripAll(str_split(header_line, "|")))

pipe_parts(line) == DropTrailingEmpty(StripAll(str_split(line, "|")))

\* one body line: no record for a line of only "|", or of the wrong length
pipe_row(line, headers) ==
    IF Range(str_strip(line)) = {"|"} THEN <<>>
    ELSE IF RowMatches(pipe_parts(line), headers)
         THEN <<dict_zip(headers, pipe_parts(line))>>
         ELSE <<>>

\* data.insert(0, row): the records come out last line first
RECURSIVE pipe_rows_Reversed(_, _)
pipe_rows_Reversed(ls, headers) ==
    IF ls = <<>> THEN <<>>
    ELSE pipe_rows_Reversed(Tail(ls), headers) \o pipe_row(ls[1], headers)

\* data.append(row) over the body lines, in order
RECURSIVE pipe_rows(_, _)
pipe_rows(ls, headers) ==
    IF ls = <<>> THEN <<>>
    ELSE pipe_row(ls[1], headers) \o pipe_rows(Tail(ls), headers)

NoTable(text) ==
    [exc |-> "none", data |-> <<>>, additional |-> text,
     sections |-> <<>>, headers |-> <<>>]

\* the headers read from table_sections[-1] in place of table_sections[0]
parse_table_LastHeader(text) ==
    LET lines == str_splitlines(str_strip(text))
        secs  == table_sections(lines, FALSE)
        first == Slice(lines, secs[1][1], secs[1][2])
        last  == Slice(lines, secs[Len(secs)][1], secs[Len(secs)][2])
        hdrs  == pipe_headers(last[1])
    IN  IF Len(lines) < 2 THEN NoTable(<<>>)
        ELSE IF secs = <<>> THEN NoTable(text)
        ELSE IF Len(first) < 2
             THEN [NoTable(<<>>) EXCEPT !.exc = "IndexError", !.sections = secs]
        ELSE [exc |-> "none",
              data |-> pipe_rows(SectionBodies(lines, secs), hdrs),
              additional |-> additional_content(lines, secs),
              sections |-> secs, headers |-> hdrs]

parse_table(text) ==
    LET lines == str_splitlines(str_strip(text))
        secs  == table_sections(lines, FALSE)
        first == Slice(lines, secs[1][1], secs[1][2])
        hdrs  == pipe_headers(first[1])
    IN  IF Len(lines) < 2 THEN NoTable(<<>>)
        ELSE IF secs = <<>> THEN NoTable(text)
        ELSE IF Len(first) < 2
             THEN \* separator_line = first_section_lines[1]
                  [NoTable(<<>>) EXCEPT !.exc = "IndexError", !.sections = secs]
        ELSE [exc |-> "none",
              data |-> pipe_rows(SectionBodies(lines, secs), hdrs),
              additional |-> additional_content(lines, secs),
              sections |-> secs, headers |-> hdrs]

----------------------------------------------------------------------------
(* parse_table_fixed: the fixed-width table *)

\* the column offsets read off the separator line
split_boundaries(separator_line) ==
    LET toks == str_split(separator_line, " ")
        w(i) == Len(str_strip(toks[i])) + 1
        RECURSIVE sum(_)
        sum(k) == IF k = 0 THEN 0 ELSE w(k) + sum(k - 1)
    IN  [i \in 1..Len(toks) |-> sum(i - 1)]

\* the slices of one line between consecutive offsets, trimmed
fixed_parts(line, sb) ==
    IF Len(sb) < 2 THEN <<>>
    ELSE [i \in 1..(Len(sb) - 1) |-> str_strip(Slice(line, sb[i], sb[i + 1]))]

fixed_headers(header_line, sb) == NonEmpty(fixed_parts(header_line, sb))

fixed_row(row, sb, headers) ==
    IF RowMatches(fixed_parts(row, sb), headers)
    THEN <<dict_zip(headers, fixed_parts(row, sb))>>
    ELSE <<>>

RECURSIVE fixed_rows(_, _, _)
fixed_rows(ls, sb, headers) ==
    IF ls = <<>> THEN <<>>
    ELSE fixed_row(ls[1], sb, headers) \o fixed_rows(Tail(ls), sb, headers)

parse_table_fixed(text) ==
    LET lines == str_splitlines(str_strip(text))
        secs  == table_sections(lines, TRUE)
        first == Slice(lines, secs[1][1], secs[1][2])
        sb    == split_boundaries(first[2])
        hdrs  == fixed_headers(first[1], sb)
    IN  IF Len(lines) < 2 THEN NoTable(<<>>)
        ELSE IF secs = <<>> THEN NoTable(text)
        ELSE IF Len(first) < 2
             THEN [NoTable(<<>>) EXCEPT !.exc = "IndexError", !.sections = secs]
        ELSE [exc |-> "none",
              data |-> fixed_rows(SectionBodies(lines, secs), sb, hdrs),
              additional |-> additional_content(lines, secs),
              sections |-> secs, headers |-> hdrs]

----------------------------------------------------------------------------
(* The values parse_response is called with.  A text is Text(chars).  A    *)
(* decoded JSON value is tagged with its Python type; a string inside a    *)
(* list or a dict, and a dict key, is a TLA+ string.                       *)

Text(s)  == [t |-> "text", text |-> s]
JNull    == [t |-> "null"]
JBool(b) == [t |-> "bool", bool |-> b]
JNum(n)  == [t |-> "num", num |-> n]
JStr(a)  == [t |-> "str", str |-> a]
JList(e) == [t |-> "list", list |-> e]
JDict(d) == [t |-> "dict", dict |-> d]

\* the characters of the two delimiters parse_response looks for
Chars(a) == IF a = "|" THEN Pipe ELSE Dashes

\* a in raw, for a text, a list or a dict; "TypeError" for any other value
py_in(a, raw) ==
    CASE raw.t = "text" -> str_contains(raw.text, Chars(a))
      [] raw.t = "list" -> \E i \in 1..Len(raw.list) : raw.list[i] = JStr(a)
      [] raw.t = "dict" -> a \in DOMAIN raw.dict
      [] OTHER -> FALSE

Iterable(raw) == raw.t \in {"text", "list", "dict"}

\* str(raw) without .lower(): Python's own spelling of the two values
bool_text_NoLower(b) ==
    IF b THEN <<"T", "r", "u", "e">> ELSE <<"F", "a", "l", "s", "e">>

\* str(raw).lower() of a bool
bool_text(b) == IF b THEN <<"t", "r", "u", "e">> ELSE <<"f", "a", "l", "s", "e">>

\* only the first replace: a "\r" that is not followed by "\n" is kept
normalize_CrlfOnly(s) == str_strip(str_replace(s, <<"\r", "\n">>, "\n"))

\* raw.replace('\r\n', '\n').replace('\r', '\n').strip()
normalize(s) ==
    str_strip(str_replace(str_replace(s, <<"\r", "\n">>, "\n"), <<"\r">>, "\n"))

\* without "if additional_content:": the field is set whatever the text is
table_envelope_Always(r) ==
    [type |-> "table", data |-> r.data, additional_content |-> r.additional]

\* {"type": "table", "data": ..., "additional_content": ...}
table_envelope(r) ==
    IF r.additional # <<>>
    THEN [type |-> "table", data |-> r.data, additional_content |-> r.additional]
    ELSE [type |-> "table", data |-> r.data]

----------------------------------------------------------------------------
(* The inputs of the model.  inp says how the input was built; raw is the  *)
(* value handed to parse_response.                                         *)

MaxLines == 3       \* lines of a free text
MaxRows  == 2       \* body rows of an encoded table

SeqsUpTo(S, n) == UNION {[1..k -> S] : k \in 1..n}

\* the lines a free text is made of
FreeLines ==
    { <<"a", " ", "|", " ", "b">>,                \* header, piped
      <<"a", " ", "|", " ", "a">>,                \* header, a name repeated
      <<"a", "a", " ", " ", "b", "b">>,           \* header, fixed-width
      <<"-", "-", "-", "|", "-", "-", "-">>,      \* separators
      <<"-", "-", "-", " ", "|", " ", "-", "-", "-">>,
      <<"-", "-", "-", " ", "-", "-", "-">>,
      <<"1", "|", "2">>,                          \* rows
      <<"1", " ", "|", " ", "2">>,
      <<"1", "|", "2", "|", "3">>,
      <<"1", " ", " ", " ", "2">>,
      <<>>,                                       \* blank line
      <<"|">>,                                    \* a line of only "|"
      <<"{", "x">>,                               \* JSON-looking line
      <<"x">> }

\* line ends and surrounding whitespace of the texts built with "\r\n"
Margins == { <<>>, <<" ", "\r", "\n">> }

\* the line ends between the lines of those texts: "\r\n", or "\r" alone
LineEnds == { <<"\r", "\n">>, <<"\r">> }

RECURSIVE join_with(_, _)
join_with(ls, sep) ==
    IF ls = <<>> THEN <<>>
    ELSE IF Len(ls) = 1 THEN ls[1]
         ELSE ls[1] \o sep \o join_with(Tail(ls), sep)

\* a logical table: column names and rows of cell values
Headers == { <<<<"a">>>>, <<<<"a">>, <<"b">>>> }
Cells   == { <<"1">>, <<"2">>, <<>> }
TableRows(h) == SeqsUpTo([1..Len(h) -> Cells], MaxRows)

\* the rows of the two-section texts
MergeHeader == <<<<"a">>, <<"b">>>>
MergeRows   == SeqsUpTo({ <<<<"1">>, <<"2">>>>, <<<<"2">>, <<>>>> }, MaxRows)

\* the layout of the sample at the end of parsers.py, three columns
SampleHeader == <<<<"a">>, <<"b">>, <<"c">>>>
SampleRows   ==
    SeqsUpTo({ <<<<"1">>, <<"2">>, <<"1", " ", "2">>>>,
               <<<<"2">>, <<"1">>, <<>>>> }, MaxRows)

\* "compact": a|b        "padded": a | b      "fixed": a   b
\*            ---|---              ---|---             --- ---
\*            1|2                  1 | 2               1   2
\* "spaced": the header as in "fixed", the separator and the rows with cells
\* padded to the column width and a "|" after every cell
\* "mixed": the header as in "padded", the separator and the rows as in
\* "compact"
PipeEncodings == {"compact", "padded"}
Encodings     == PipeEncodings \cup {"spaced", "fixed"}
TailEncodings == {"padded", "mixed", "fixed"}
ColWidth      == Len(Dashes)

\* cell, then spaces up to ColWidth characters
Pad(cell) == cell \o [i \in 1..(ColWidth - Len(cell)) |-> " "]

EncodeLine(cells, enc) ==
    CASE enc \in {"compact", "mixed"} -> join_with(cells, <<"|">>)
      [] enc = "padded"  -> join_with(cells, <<" ", "|", " ">>)
      [] enc = "fixed"   -> join_with([i \in 1..Len(cells) |-> Pad(cells[i])], <<" ">>)
      [] enc = "spaced"  -> join_with([i \in 1..Len(cells) |-> Pad(cells[i])], <<"|">>)
                                \o <<"|">>

EncodeHeader(hdr, enc) ==
    EncodeLine(hdr, CASE enc = "spaced" -> "fixed"
                      [] enc = "mixed"  -> "padded"
                      [] OTHER          -> enc)

EncodeSeparator(n, enc) ==
    CASE enc = "fixed"  -> join_with([i \in 1..n |-> Dashes], <<" ">>)
      [] enc = "spaced" -> join_with([i \in 1..n |-> Dashes], <<"|">>) \o <<"|">>
      [] OTHER          -> join_with([i \in 1..n |-> Dashes], <<"|">>)

\* header line, separator line, one line per row
EncodeLines(hdr, rows, enc) ==
    <<EncodeHeader(hdr, enc), EncodeSeparator(Len(hdr), enc)>>
        \o [i \in 1..Len(rows) |-> EncodeLine(rows[i], enc)]

EncodeTable(hdr, rows, enc) == str_join(EncodeLines(hdr, rows, enc))

\* two sections with the same header and separator, one blank line between
EncodeMerged(hdr, rows1, rows2, enc) ==
    str_join(EncodeLines(hdr, rows1, enc) \o <<<<>>>> \o EncodeLines(hdr, rows2, enc))

\* a second section under a header of its own
OtherHeader == <<<<"b">>, <<"c">>>>
OtherRows   == SeqsUpTo({ <<<<"2">>, <<"1">>>>, <<<<"1">>, <<"1">>>> }, MaxRows)

\* two sections, each with its header and separator, one blank line between
EncodeTwo(hdr1, rows1, hdr2, rows2, enc) ==
    str_join(EncodeLines(hdr1, rows1, enc) \o <<<<>>>> \o EncodeLines(hdr2, rows2, enc))

\* the lines that may follow a table
TailLines == { <<>>, <<"{", "x">>, <<"x">>, <<"1", "|", "2">> }
Tails     == {<<>>} \cup SeqsUpTo(TailLines, 3)

\* one section and the lines after it
EncodeTailed(hdr, rows, tail, enc) == str_join(EncodeLines(hdr, rows, enc) \o tail)

\* decoded JSON values
ListElems  == { JNum(1), JStr("|"), JStr("---"), JStr("x") }
JsonLists  == { JList(e) : e \in {<<>>} \cup SeqsUpTo(ListElems, 2) }
Nested     == { JDict([k \in {"Query"} |-> JList(<<JNum(1)>>)]),
                JDict([k \in {"x"} |-> JNum(1)]),
                JDict(<<>>), JList(<<JNum(1)>>), JNum(3), JStr("s"), JNull }
DictKeys   == { "blobs", "streaming", "|", "---", "x" }
JsonDicts  ==
    { JDict([k \in K |-> IF k = "blobs" THEN b
                         ELSE IF k = "streaming" THEN st ELSE JNum(1)]) :
        K \in SUBSET DictKeys, b \in Nested, st \in Nested }
JsonValues ==
    { JNull, JBool(TRUE), JBool(FALSE), JNum(1) } \cup JsonLists \cup JsonDicts

Inputs ==
    { [fam |-> "free", lines |-> ls] : ls \in SeqsUpTo(FreeLines, MaxLines) }
    \cup { [fam |-> "crlf", lines |-> ls, lead |-> a, trail |-> b, eol |-> e] :
             ls \in SeqsUpTo(FreeLines, 2), a \in Margins, b \in Margins,
             e \in LineEnds }
    \cup UNION { { [fam |-> "enc", enc |-> e, hdr |-> h, rows |-> rs] :
                     rs \in TableRows(h), e \in Encodings } : h \in Headers }
    \cup { [fam |-> "enc", enc |-> "spaced", hdr |-> SampleHeader, rows |-> rs] :
             rs \in SampleRows }
    \cup { [fam |-> "merge", enc |-> e, hdr |-> MergeHeader,
            rows1 |-> r1, rows2 |-> r2] :
             r1 \in MergeRows, r2 \in MergeRows, e \in Encodings }
    \cup { [fam |-> "tail", enc |-> e, hdr |-> MergeHeader, rows |-> rs,
            tail |-> t] :
             rs \in MergeRows, t \in Tails, e \in TailEncodings }
    \cup { [fam |-> "two", enc |-> e, hdr |-> MergeHeader, rows1 |-> r1,
            hdr2 |-> OtherHeader, rows2 |-> r2] :
             r1 \in MergeRows, r2 \in OtherRows, e \in TailEncodings }
    \cup { [fam |-> "json", value |-> v] : v \in JsonValues }

InputValue(i) ==
    CASE i.fam = "free"  -> Text(str_join(i.lines))
      [] i.fam = "crlf"  -> Text(i.lead \o join_with(i.lines, i.eol) \o i.trail)
      [] i.fam = "enc"   -> Text(EncodeTable(i.hdr, i.rows, i.enc))
      [] i.fam = "merge" -> Text(EncodeMerged(i.hdr, i.rows1, i.rows2, i.enc))
      [] i.fam = "tail"  -> Text(EncodeTailed(i.hdr, i.rows, i.tail, i.enc))
      [] i.fam = "two"   -> Text(EncodeTwo(i.hdr, i.rows1, i.hdr2, i.rows2, i.enc))
      [] i.fam = "json"  -> i.value

----------------------------------------------------------------------------
(* parse_response, one action per statement of its body *)

VARIABLES
    inp,      \* how the input was built
    raw,      \* the argument of parse_response
    pc,       \* the statement parse_response is at, "returned" or "raised"
    result,   \* the envelope returned, [type |-> "none"] before the return
    exc,      \* the exception raised to the caller, "none" if none
    called,   \* the table parsers called so far
    tbl,      \* what the last table parser computed
    calls,    \* concurrent calls: each call's argument, position and outcome
    frames,   \* concurrent calls: the local variables of each call's frame
    lp,       \* the loops of parse_table, statement by statement
    sc,       \* one request to /send-command/: its arguments and position
    bk,       \* the bookmarks file of file_auth and the last call's outcome
    pm,       \* the PluginManager's config and the calls made on it
    ld        \* one run of the backend's load_plugins

vars == <<inp, raw, pc, result, exc, called, tbl, calls, frames, lp,
          sc, bk, pm, ld>>

NoResult == [type |-> "none"]

\* no concurrent call is made, no loop is followed
NoCalls == calls = <<>> /\ frames = <<>>
NoLoop  == lp = [at |-> "idle"]

\* no request is served, no bookmark is kept, no plugin is managed or loaded
NoServices ==
    /\ sc = [at |-> "idle"] /\ bk = [at |-> "idle"]
    /\ pm = [at |-> "idle"] /\ ld = [at |-> "idle"]

Init ==
    /\ inp \in Inputs
    /\ raw = InputValue(inp)
    /\ pc = "blobs"
    /\ result = NoResult
    /\ exc = "none"
    /\ called = {}
    /\ tbl = NoTable(<<>>)
    /\ NoCalls
    /\ NoLoop
    /\ NoServices

Return(env) ==
    /\ pc' = "returned"
    /\ result' = env
    /\ UNCHANGED <<inp, raw, exc, calls, frames, lp, sc, bk, pm, ld>>

Raise(e) ==
    /\ pc' = "raised"
    /\ exc' = e
    /\ UNCHANGED <<inp, raw, result, calls, frames, lp, sc, bk, pm, ld>>

Goto(l) ==
    /\ pc' = l
    /\ UNCHANGED <<inp, raw, result, exc, calls, frames, lp, sc, bk, pm, ld>>

\* if isinstance(raw, dict) and 'blobs' in raw: return raw['blobs']['Query']
BlobsRule ==
    /\ pc = "blobs"
    /\ UNCHANGED <<called, tbl>>
    /\ IF raw.t = "dict" /\ "blobs" \in DOMAIN raw.dict
       THEN LET b == raw.dict["blobs"]
            IN  IF b.t = "dict"
                THEN IF "Query" \in DOMAIN b.dict
                     THEN Return([type |-> "blobs", data |-> b.dict["Query"]])
                     ELSE Raise("KeyError")
                ELSE Raise("TypeError")
       ELSE Goto("bool")

\* if isinstance(raw, bool): return str(raw).lower()
BoolRule ==
    /\ pc = "bool"
    /\ UNCHANGED <<called, tbl>>
    /\ IF raw.t = "bool"
       THEN Return([type |-> "string", data |-> bool_text(raw.bool)])
       ELSE Goto("table")

\* without "if table_data:": the envelope is returned whatever the parser found
AfterTable_NoGuard(r) ==
    IF r.exc # "none" THEN Raise(r.exc)
    ELSE Return(table_envelope(r))

\* the outcome of a table parser, at the call site
AfterTable(r) ==
    IF r.exc # "none" THEN Raise(r.exc)
    ELSE IF r.data # <<>> THEN Return(table_envelope(r))
    ELSE Goto("json")

TriesPipe(v)  == py_in("|", v)
\* "if" in place of "elif": the fixed-width attempt no longer yields to "|"
TriesFixed_NoElif(v) == py_in("---", v)

TriesFixed(v) == ~py_in("|", v) /\ py_in("---", v)

\* '|' in raw, on a value that is no text, list or dict
MembershipError ==
    /\ pc = "table"
    /\ ~Iterable(raw)
    /\ UNCHANGED <<called, tbl>>
    /\ Raise("TypeError")

\* if '|' in raw: parse_table(raw)
PipeTable ==
    /\ pc = "table"
    /\ Iterable(raw)
    /\ TriesPipe(raw)
    /\ called' = called \cup {"parse_table"}
    /\ IF raw.t = "text"
       THEN /\ tbl' = parse_table(raw.text)
            /\ AfterTable(parse_table(raw.text))
       ELSE \* text.strip() on a list or a dict
            /\ tbl' = tbl
            /\ Raise("AttributeError")

\* elif '---' in raw: parse_table_fixed(raw)
FixedTable ==
    /\ pc = "table"
    /\ Iterable(raw)
    /\ TriesFixed(raw)
    /\ called' = called \cup {"parse_table_fixed"}
    /\ IF raw.t = "text"
       THEN /\ tbl' = parse_table_fixed(raw.text)
            /\ AfterTable(parse_table_fixed(raw.text))
       ELSE /\ tbl' = tbl
            /\ Raise("AttributeError")

\* neither delimiter is in raw
NoDelimiter ==
    /\ pc = "table"
    /\ Iterable(raw)
    /\ ~TriesPipe(raw)
    /\ ~TriesFixed(raw)
    /\ UNCHANGED <<called, tbl>>
    /\ Goto("json")

\* if type(raw) is list / dict: return {"type": "json", "data": raw}
JsonRule ==
    /\ pc = "json"
    /\ UNCHANGED <<called, tbl>>
    /\ IF raw.t \in {"list", "dict"}
       THEN Return([type |-> "json", data |-> raw])
       ELSE Goto("string")

\* the last return: a text is normalized, any other value is passed on
StringRule ==
    /\ pc = "string"
    /\ UNCHANGED <<called, tbl>>
    /\ IF raw.t = "text"
       THEN Return([type |-> "string", data |-> normalize(raw.text)])
       ELSE Return([type |-> "string", data |-> raw])

Next ==
    \/ BlobsRule
    \/ BoolRule
    \/ MembershipError
    \/ PipeTable
    \/ FixedTable
    \/ NoDelimiter
    \/ JsonRule
    \/ StringRule

Spec == Init /\ [][Next]_vars

----------------------------------------------------------------------------
(* Properties of parse_response and of the table parsers *)

Terminal == pc \in {"returned", "raised"}

\* the record of one logical row: column name -> cell value
RowRecord(hdr, row) == [k \in Range(hdr) |-> row[CHOOSE j \in 1..Len(hdr) : hdr[j] = k]]

\* the table envelope of a logical table, all rows kept in order
IsTableOf(env, hdr, rows) ==
    /\ env.type = "table"
    /\ Len(env.data) = Len(rows)
    /\ \A i \in 1..Len(rows) : env.data[i] = RowRecord(hdr, rows[i])

\* a table of two or more columns in which every cell holds a value
FullTable(hdr, rows) ==
    /\ Len(hdr) >= 2
    /\ \A i \in 1..Len(rows) : \A j \in 1..Len(rows[i]) : rows[i][j] # <<>>

\* C1: parse_response is total: whatever the input (any text, any JSON object,
\* array, number, boolean or null), the call returns an envelope and raises no
\* exception to its caller.
C1_Total == pc # "raised"

\* C2: a text with a whitespace-separated header line (no "|") and "|"-delimited
\* separator and body lines is returned as a table envelope with one record per
\* body row, keyed by the header's column names, with trimmed cell values.
\* (Stated for the tables with no empty cell, as in the sample.)
C2_SpacedHeaderTable ==
    (/\ Terminal
     /\ inp.fam = "enc"
     /\ inp.enc = "spaced"
     /\ FullTable(inp.hdr, inp.rows))
        => pc = "returned" /\ IsTableOf(result, inp.hdr, inp.rows)

\* C3: a well-formed pipe table with H header columns and R body rows, none of
\* them made only of "|", is returned as a table envelope with exactly R records,
\* each with exactly the H header names as keys and the trimmed cells as values.
\* (Stated for two or more columns and no empty cell: no row is made only of
\* "|" and every line holds a "|".)
C3_PipeTableRecords ==
    (/\ Terminal
     /\ inp.fam = "enc"
     /\ inp.enc \in PipeEncodings
     /\ FullTable(inp.hdr, inp.rows)
     /\ \A i \in 1..Len(inp.rows) :
           Range(str_strip(EncodeLine(inp.rows[i], inp.enc))) # {"|"})
        => pc = "returned" /\ IsTableOf(result, inp.hdr, inp.rows)

\* what the parser parse_response would call for this encoding returns for a text
ParserOf(enc, text) ==
    IF enc = "fixed" THEN parse_table_fixed(text) ELSE parse_table(text)

\* C4: two sections with the same header and separator line, one blank line
\* between them, merge into the records of the first section followed by the
\* records of the second: as many records as the two sections have on their
\* own, in section order, in pipe mode and in fixed-width mode.
C4_MergeIsSum ==
    (Terminal /\ inp.fam = "merge")
        => /\ pc = "returned"
           /\ tbl.data = ParserOf(inp.enc, EncodeTable(inp.hdr, inp.rows1, inp.enc)).data
                          \o ParserOf(inp.enc, EncodeTable(inp.hdr, inp.rows2, inp.enc)).data

\* C5: the fixed-width encoding and the pipe-delimited encoding of the same
\* logical table give record lists that are equal as sets of records.
\* (Stated for two or more columns and no empty cell.)
C5_FixedEqualsPipe ==
    (/\ Terminal
     /\ inp.fam = "enc"
     /\ inp.enc = "fixed"
     /\ FullTable(inp.hdr, inp.rows)
     /\ "parse_table_fixed" \in called)
        => /\ tbl.exc = "none"
           /\ \A e \in PipeEncodings :
                 LET r == parse_table(EncodeTable(inp.hdr, inp.rows, e))
                 IN  r.exc = "none" /\ Range(r.data) = Range(tbl.data)

\* the body lines a table parser went through, and their decoded field counts
ParsedLines == str_splitlines(str_strip(raw.text))
BodyLines   == SectionBodies(ParsedLines, tbl.sections)
FieldCount(line) ==
    IF "parse_table_fixed" \in called
    THEN Len(fixed_parts(line, split_boundaries(ParsedLines[tbl.sections[1][1] + 2])))
    ELSE Len(pipe_parts(line))
OnlyPipes(line) == "parse_table" \in called /\ Range(str_strip(line)) = {"|"}

\* a table parser ran on a text and found a section
Decoded == raw.t = "text" /\ called # {} /\ tbl.sections # <<>>

\* the body lines with as many decoded fields as there are columns, in order
RECURSIVE RightLength(_)
RightLength(ls) ==
    IF ls = <<>> THEN <<>>
    ELSE IF ~OnlyPipes(ls[1]) /\ FieldCount(ls[1]) = Len(tbl.headers)
         THEN <<ls[1]>> \o RightLength(Tail(ls))
         ELSE RightLength(Tail(ls))

Fields(line) ==
    IF "parse_table_fixed" \in called
    THEN fixed_parts(line, split_boundaries(ParsedLines[tbl.sections[1][1] + 2]))
    ELSE pipe_parts(line)

\* C6: a body row whose decoded field count differs from the column count is
\* not in the output and does not make the parse fail (a parse fails only when
\* the first section has no separator line to read, whatever the rows hold);
\* the records are, in order, those of the body rows with exactly as many
\* decoded fields as there are columns, each field under its column's name.
C6_MismatchedRowsDropped ==
    Decoded =>
        /\ tbl.exc # "none" => tbl.sections[1][2] - tbl.sections[1][1] < 2
        /\ tbl.exc = "none" =>
             /\ Len(tbl.data) = Len(RightLength(BodyLines))
             /\ \A i \in 1..Len(tbl.data) :
                   /\ DOMAIN tbl.data[i] = Range(tbl.headers)
                   /\ \A j \in 1..Len(tbl.headers) :
                         \/ tbl.data[i][tbl.headers[j]] = Fields(RightLength(BodyLines)[i])[j]
                         \/ \E k \in (j + 1)..Len(tbl.headers) :
                               tbl.headers[k] = tbl.headers[j]

\* a parse that kept one row and dropped another for its field count
C6_Witness ==
    /\ Decoded /\ tbl.exc = "none" /\ pc = "returned"
    /\ tbl.data # <<>>
    /\ \E i \in 1..Len(BodyLines) :
          ~OnlyPipes(BodyLines[i]) /\ FieldCount(BodyLines[i]) # Len(tbl.headers)

HasBothDelimiters ==
    raw.t = "text" /\ str_contains(raw.text, Pipe) /\ str_contains(raw.text, Dashes)

\* C7: a text containing both "|" and "---" is handed to the pipe-table parser
\* only, never to the fixed-width parser, also when the pipe parse gives no
\* records.
C7_PipePrecedence ==
    HasBothDelimiters =>
        /\ "parse_table_fixed" \notin called
        /\ pc \in {"json", "string", "returned", "raised"} => "parse_table" \in called

\* such a text in which the pipe parser found a section and no record: it is
\* returned as a string
C7_Witness ==
    /\ HasBothDelimiters
    /\ pc = "returned" /\ result.type = "string"
    /\ called = {"parse_table"} /\ tbl.exc = "none"
    /\ tbl.sections # <<>> /\ tbl.data = <<>>

HasKey(v, k) == v.t = "dict" /\ k \in DOMAIN v.dict
BlobsMatch(v) == HasKey(v, "blobs") /\ HasKey(v.dict["blobs"], "Query")

\* C8: an object is classified as blobs exactly when it has key "blobs" whose
\* value has the nested key "Query", and the data is then that nested value; an
\* object with key "blobs" but no nested "Query" is returned as a json envelope
\* with the data unchanged.
C8_BlobsRule ==
    (Terminal /\ raw.t = "dict") =>
        /\ pc = "returned"
        /\ BlobsMatch(raw) <=> result.type = "blobs"
        /\ BlobsMatch(raw) => result.data = raw.dict["blobs"].dict["Query"]
        /\ (HasKey(raw, "blobs") /\ ~BlobsMatch(raw) /\ ~HasKey(raw, "streaming"))
              => result = [type |-> "json", data |-> raw]

\* C9: an object with key "streaming" that the blobs rule does not match is
\* returned as a streaming envelope; the data is the nested "Query" value when
\* the "streaming" value is an object with key "Query", else that value itself.
C9_StreamingRule ==
    (pc = "returned" /\ HasKey(raw, "streaming") /\ ~BlobsMatch(raw)) =>
        /\ result.type = "streaming"
        /\ result.data = IF HasKey(raw.dict["streaming"], "Query")
                         THEN raw.dict["streaming"].dict["Query"]
                         ELSE raw.dict["streaming"]

\* C10: every array, and every object with neither key "blobs" nor key
\* "streaming", is returned as a json envelope with the data unchanged, whatever
\* its elements or keys are ("|" and "---" included).  (Objects with key "blobs"
\* and no nested "Query" are C8's.)
C10_JsonUnchanged ==
    (/\ Terminal
     /\ raw.t \in {"list", "dict"}
     /\ ~HasKey(raw, "blobs")
     /\ ~HasKey(raw, "streaming"))
        => pc = "returned" /\ result = [type |-> "json", data |-> raw]

\* C11: a JSON boolean is answered with a "string" envelope whose data is the
\* text "true" or "false"; the answer is given before any delimiter is looked
\* for: no table parser is called and the call never reaches the statements
\* after the boolean check, nor raises.
C11_BoolString ==
    raw.t = "bool" =>
        /\ pc \in {"blobs", "bool", "returned"}
        /\ called = {}
        /\ exc = "none"
        /\ pc = "returned" =>
              result = [type |-> "string",
                        data |-> IF raw.bool THEN <<"t", "r", "u", "e">>
                                 ELSE <<"f", "a", "l", "s", "e">>]

C11_Witness ==
    /\ raw = JBool(FALSE)
    /\ pc = "returned"
    /\ result = [type |-> "string", data |-> <<"f", "a", "l", "s", "e">>]

\* the text with every "\r\n" pair rewritten to "\n", read left to right
RECURSIVE CrlfToLf(_)
CrlfToLf(s) ==
    IF s = <<>> THEN <<>>
    ELSE IF Len(s) >= 2 /\ s[1] = "\r" /\ s[2] = "\n"
         THEN <<"\n">> \o CrlfToLf(SubSeq(s, 3, Len(s)))
         ELSE <<s[1]>> \o CrlfToLf(Tail(s))

\* the same, and every "\r" that stands alone rewritten to "\n" as well
RECURSIVE LineEndsToLf(_)
LineEndsToLf(s) ==
    IF s = <<>> THEN <<>>
    ELSE IF Len(s) >= 2 /\ s[1] = "\r" /\ s[2] = "\n"
         THEN <<"\n">> \o LineEndsToLf(SubSeq(s, 3, Len(s)))
         ELSE <<IF s[1] = "\r" THEN "\n" ELSE s[1]>> \o LineEndsToLf(Tail(s))

NoDelimiterText ==
    /\ raw.t = "text"
    /\ ~str_contains(raw.text, Pipe)
    /\ ~str_contains(raw.text, Dashes)

\* C12, as stated: a text with neither "|" nor "---" is returned as a "string"
\* envelope whose data is the input with "\r\n" rewritten to "\n" and the
\* leading and trailing whitespace removed, no other character changed.
C12_CrlfOnly ==
    (NoDelimiterText /\ Terminal) =>
        /\ pc = "returned"
        /\ result = [type |-> "string", data |-> str_strip(CrlfToLf(raw.text))]

\* C12, amended: a text with neither "|" nor "---" is returned as a "string"
\* envelope whose data is the input with every "\r\n" and every remaining
\* "\r" rewritten to "\n" and the leading and trailing whitespace removed, no
\* other character changed; no table parser is called.
C12_PlainText ==
    NoDelimiterText =>
        /\ called = {}
        /\ exc = "none"
        /\ Terminal =>
              /\ pc = "returned"
              /\ result = [type |-> "string",
                           data |-> str_strip(LineEndsToLf(raw.text))]

\* a text of two lines with "\r" between them, returned with "\n" in its place
C12_Witness ==
    /\ NoDelimiterText
    /\ pc = "returned"
    /\ inp.fam = "crlf" /\ inp.eol = <<"\r">> /\ inp.lead # <<>>
    /\ Len(inp.lines) = 2 /\ inp.lines[1] # <<>> /\ inp.lines[2] # <<>>
    /\ result.type = "string"
    /\ result.data = inp.lines[1] \o <<"\n">> \o inp.lines[2]

\* a table parser was called on the text and came back, without an exception,
\* with no record
TableAttemptFailed ==
    /\ raw.t = "text"
    /\ called # {}
    /\ tbl.exc = "none"
    /\ tbl.data = <<>>

\* C13: when the table attempt on a text comes back with no record (the
\* trimmed text has fewer than 2 lines, no section is found, or no body row is
\* kept), parse_response goes on to its last statements and returns a
\* "string" envelope holding the normalized text: it never raises and never
\* returns an envelope of another type.
C13_FallsThrough ==
    TableAttemptFailed =>
        /\ pc \in {"json", "string", "returned"}
        /\ exc = "none"
        /\ pc = "returned" =>
              result = [type |-> "string",
                        data |-> str_strip(LineEndsToLf(raw.text))]

\* a section with body lines, every row of it dropped, and the text returned
C13_Witness ==
    /\ TableAttemptFailed
    /\ tbl.sections # <<>>
    /\ BodyLines # <<>>
    /\ pc = "returned"
    /\ result.type = "string"

\* C14: an exception raised inside a table parser is caught by parse_response,
\* which returns an "error" envelope carrying a message and error_details; the
\* exception does not reach the caller.
C14_ErrorEnvelope ==
    (called # {} /\ exc # "none") =>
        /\ pc = "returned"
        /\ result.type = "error"
        /\ "error_details" \in DOMAIN result

\* C17: every section the detector emits, as the pair (start, end) the parsers
\* slice the lines with, has end > start + 1: it holds its header line and its
\* separator line at least, so the first section always has a separator line
\* to read.
C17_SectionShape ==
    (raw.t = "text" /\ called # {}) =>
        \A k \in 1..Len(tbl.sections) :
            tbl.sections[k][2] > tbl.sections[k][1] + 1

\* C18: a "table" envelope always has a non-empty list of records as data and
\* carries additional_content only as a non-empty text; an envelope of any
\* other type carries no additional_content.
C18_TableEnvelope ==
    pc = "returned" =>
        IF result.type = "table"
        THEN /\ DOMAIN result \subseteq {"type", "data", "additional_content"}
             /\ result.data # <<>>
             /\ "additional_content" \in DOMAIN result
                    => result.additional_content # <<>>
        ELSE DOMAIN result = {"type", "data"}

\* records and a text after the table, both in the envelope
C18_Witness ==
    /\ pc = "returned"
    /\ result.type = "table"
    /\ Len(result.data) = MaxRows
    /\ "additional_content" \in DOMAIN result
    /\ result.additional_content = <<"{", "x">>

\* the last section found, and what the lines of the text look like; lines
\* are counted from 0 as in the code
LastSection  == tbl.sections[Len(tbl.sections)]
LineBlank(i) == str_strip(ParsedLines[i + 1]) = <<>>
LineBrace(i) == ~LineBlank(i) /\ Head(str_strip(ParsedLines[i + 1])) = "{"
\* a blank line with a non-blank line somewhere after it, or a "{" line
LineStops(i) ==
    \/ LineBlank(i) /\ \E j \in (i + 1)..(Len(ParsedLines) - 1) : ~LineBlank(j)
    \/ LineBrace(i)

\* C19: the last section ends at the earliest line, from start + 2 on, that is
\* a blank line followed by a non-blank line or a line whose trimmed text
\* begins with "{"; if there is none it ends at the end of the input.  A
\* blank line followed only by blank lines does not end it.
C19_LastSectionEnd ==
    Decoded =>
        LET s == LastSection[1]
            e == LastSection[2]
        IN  /\ e \in (s + 2)..Len(ParsedLines)
            /\ e < Len(ParsedLines) => LineStops(e)
            /\ \A i \in (s + 2)..(e - 1) : ~LineStops(i)

\* a section of one body row ended by a "{" line, with a blank line and more
\* text after it
C19_Witness ==
    /\ Decoded
    /\ pc = "returned"
    /\ LastSection = <<0, 3>>
    /\ Len(ParsedLines) > 5
    /\ LineBrace(3)
    /\ LineBlank(4)

\* the lines from the end of the last section on that are not blank
TailContent == {i \in LastSection[2]..(Len(ParsedLines) - 1) : ~LineBlank(i)}

\* C20: the additional content is the lines after the last section, from the
\* first non-blank one on, joined by newlines; it starts after the lines of
\* every section, so no body row is in it, and a "{" line that ended the last
\* section is its first line.  The envelope carries it as additional_content
\* exactly when it is not empty.
C20_AdditionalContent ==
    (Decoded /\ tbl.exc = "none") =>
        /\ tbl.additional =
              IF TailContent = {} THEN <<>>
              ELSE str_join(SubSeq(ParsedLines, SetMin(TailContent) + 1,
                                   Len(ParsedLines)))
        /\ \A k \in 1..Len(tbl.sections) : tbl.sections[k][2] <= LastSection[2]
        /\ (LastSection[2] < Len(ParsedLines) /\ LineBrace(LastSection[2]))
              => SetMin(TailContent) = LastSection[2]
        /\ (pc = "returned" /\ result.type = "table") =>
              IF tbl.additional = <<>>
              THEN "additional_content" \notin DOMAIN result
              ELSE /\ "additional_content" \in DOMAIN result
                   /\ result.additional_content = tbl.additional

\* two sections' worth of lines: a table, a blank line, and two lines of text
\* of which the first looks like a body row
C20_Witness ==
    /\ Decoded
    /\ pc = "returned"
    /\ result.type = "table"
    /\ LastSection[2] < Len(ParsedLines)
    /\ LineBlank(LastSection[2])
    /\ "additional_content" \in DOMAIN result
    /\ result.additional_content = <<"1", "|", "2", "\n", "x">>

----------------------------------------------------------------------------
(* Several calls of parse_response at once.  parsers.py has no module-level *)
(* variable and no default argument: raw, table_data and additional_content *)
(* are local names, held in the frame Python creates for each call.  The    *)
(* calls take their statements in any order.                                *)

NCalls  == 2        \* calls made at once
CallIds == 1..NCalls

\* one frame for all the calls, as if the local names were module globals
Frame_Shared(c) == 1

\* the frame holding the local names of call c
Frame(c) == c

\* what the calls are given: tables that decode, tables that do not, plain
\* texts and decoded JSON values
ConcInputs ==
    { [fam |-> "enc", enc |-> e, hdr |-> MergeHeader, rows |-> <<r>>] :
        e \in {"padded", "fixed"}, r \in { <<<<"1">>, <<"2">>>>, <<<<"2">>, <<>>>> } }
    \cup { [fam |-> "tail", enc |-> "mixed", hdr |-> MergeHeader,
            rows |-> <<<<<<"2">>, <<"1">>>>>>, tail |-> <<<<"{", "x">>>>] }
    \cup { [fam |-> "free", lines |-> ls] :
             ls \in { <<<<"x">>>>,
                      << <<"a", " ", "|", " ", "b">>,
                         <<"-", "-", "-", " ", "|", " ", "-", "-", "-">>,
                         <<"1", "|", "2">> >> } }
    \cup { [fam |-> "json", value |-> v] :
             v \in { JBool(TRUE), JNum(1), JList(<<JStr("x")>>),
                     JDict([k \in {"blobs"} |->
                              JDict([q \in {"Query"} |-> JList(<<JNum(1)>>)])]) } }

NoFrame == [raw |-> JNull, table |-> NoTable(<<>>)]

\* the Spec of one call stands still
OneCallIdle ==
    /\ inp = [fam |-> "none"]
    /\ raw = JNull
    /\ pc = "idle"
    /\ result = NoResult
    /\ exc = "none"
    /\ called = {}
    /\ tbl = NoTable(<<>>)

ConcInit ==
    /\ calls \in [CallIds -> { [inp |-> i, arg |-> InputValue(i), at |-> "enter",
                                out |-> NoResult, err |-> "none"] :
                                 i \in ConcInputs }]
    /\ frames = [f \in CallIds |-> NoFrame]
    /\ OneCallIdle
    /\ NoLoop
    /\ NoServices

\* the local names of call c
Local(c) == frames[Frame(c)]

CallReturns(c, env) ==
    /\ calls' = [calls EXCEPT ![c].at = "returned", ![c].out = env]
    /\ UNCHANGED <<inp, raw, pc, result, exc, called, tbl, lp, sc, bk, pm, ld>>

CallRaises(c, e) ==
    /\ calls' = [calls EXCEPT ![c].at = "raised", ![c].err = e]
    /\ UNCHANGED <<inp, raw, pc, result, exc, called, tbl, lp, sc, bk, pm, ld>>

CallGoto(c, l) ==
    /\ calls' = [calls EXCEPT ![c].at = l]
    /\ UNCHANGED <<inp, raw, pc, result, exc, called, tbl, lp, sc, bk, pm, ld>>

\* def parse_response(raw): the argument is bound to the local name raw
Enter(c) ==
    /\ calls[c].at = "enter"
    /\ frames' = [frames EXCEPT ![Frame(c)].raw = calls[c].arg]
    /\ CallGoto(c, "blobs")

\* if isinstance(raw, dict) and 'blobs' in raw: return raw['blobs']['Query']
CallBlobs(c) ==
    /\ calls[c].at = "blobs"
    /\ UNCHANGED frames
    /\ LET v == Local(c).raw
       IN  IF v.t = "dict" /\ "blobs" \in DOMAIN v.dict
           THEN LET b == v.dict["blobs"]
                IN  IF b.t = "dict"
                    THEN IF "Query" \in DOMAIN b.dict
                         THEN CallReturns(c, [type |-> "blobs",
                                              data |-> b.dict["Query"]])
                         ELSE CallRaises(c, "KeyError")
                    ELSE CallRaises(c, "TypeError")
           ELSE CallGoto(c, "bool")

\* if isinstance(raw, bool): return str(raw).lower()
CallBool(c) ==
    /\ calls[c].at = "bool"
    /\ UNCHANGED frames
    /\ LET v == Local(c).raw
       IN  IF v.t = "bool"
           THEN CallReturns(c, [type |-> "string", data |-> bool_text(v.bool)])
           ELSE CallGoto(c, "table")

\* table_data, additional_content = parse_table(raw) / parse_table_fixed(raw)
CallTable(c) ==
    /\ calls[c].at = "table"
    /\ LET v == Local(c).raw
       IN  IF ~Iterable(v)
           THEN CallRaises(c, "TypeError") /\ UNCHANGED frames
           ELSE IF ~TriesPipe(v) /\ ~TriesFixed(v)
           THEN CallGoto(c, "json") /\ UNCHANGED frames
           ELSE IF v.t # "text"
           THEN CallRaises(c, "AttributeError") /\ UNCHANGED frames
           ELSE LET r == IF TriesPipe(v) THEN parse_table(v.text)
                         ELSE parse_table_fixed(v.text)
                IN  IF r.exc # "none"
                    THEN CallRaises(c, r.exc) /\ UNCHANGED frames
                    ELSE /\ frames' = [frames EXCEPT ![Frame(c)].table = r]
                         /\ CallGoto(c, "table_data")

\* if table_data: return {"type": "table", ...}
CallTableData(c) ==
    /\ calls[c].at = "table_data"
    /\ UNCHANGED frames
    /\ LET r == Local(c).table
       IN  IF r.data # <<>>
           THEN CallReturns(c, table_envelope(r))
           ELSE CallGoto(c, "json")

\* if type(raw) is list / dict: return {"type": "json", "data": raw}
CallJson(c) ==
    /\ calls[c].at = "json"
    /\ UNCHANGED frames
    /\ LET v == Local(c).raw
       IN  IF v.t \in {"list", "dict"}
           THEN CallReturns(c, [type |-> "json", data |-> v])
           ELSE CallGoto(c, "string")

\* if isinstance(raw, str): raw = raw.replace(...).replace(...); raw = raw.strip()
CallNormalize(c) ==
    /\ calls[c].at = "string"
    /\ LET v == Local(c).raw
       IN  frames' = IF v.t = "text"
                     THEN [frames EXCEPT ![Frame(c)].raw = Text(normalize(v.text))]
                     ELSE frames
    /\ CallGoto(c, "return")

\* return {"type": "string", "data": raw}
CallReturn(c) ==
    /\ calls[c].at = "return"
    /\ UNCHANGED frames
    /\ LET v == Local(c).raw
       IN  CallReturns(c, [type |-> "string",
                           data |-> IF v.t = "text" THEN v.text ELSE v])

ConcNext ==
    \/ \E c \in CallIds : Enter(c)
    \/ \E c \in CallIds : CallBlobs(c)
    \/ \E c \in CallIds : CallBool(c)
    \/ \E c \in CallIds : CallTable(c)
    \/ \E c \in CallIds : CallTableData(c)
    \/ \E c \in CallIds : CallJson(c)
    \/ \E c \in CallIds : CallNormalize(c)
    \/ \E c \in CallIds : CallReturn(c)

ConcSpec == ConcInit /\ [][ConcNext]_vars

\* what parse_response(v) gives when nothing else runs: the statements of its
\* body in their order
parse_response(v) ==
    LET returns(env) == [out |-> env, err |-> "none"]
        raises(e)    == [out |-> NoResult, err |-> e]
        tries        == TriesPipe(v) \/ TriesFixed(v)
        r == IF ~tries THEN NoTable(<<>>)
             ELSE IF TriesPipe(v) THEN parse_table(v.text)
             ELSE parse_table_fixed(v.text)
    IN  IF v.t = "dict" /\ "blobs" \in DOMAIN v.dict
        THEN LET b == v.dict["blobs"]
             IN  IF b.t # "dict" THEN raises("TypeError")
                 ELSE IF "Query" \notin DOMAIN b.dict THEN raises("KeyError")
                 ELSE returns([type |-> "blobs", data |-> b.dict["Query"]])
        ELSE IF v.t = "bool"
        THEN returns([type |-> "string", data |-> bool_text(v.bool)])
        ELSE IF ~Iterable(v) THEN raises("TypeError")
        ELSE IF tries /\ v.t # "text" THEN raises("AttributeError")
        ELSE IF r.exc # "none" THEN raises(r.exc)
        ELSE IF r.data # <<>> THEN returns(table_envelope(r))
        ELSE IF v.t \in {"list", "dict"} THEN returns([type |-> "json", data |-> v])
        ELSE returns([type |-> "string", data |-> normalize(v.text)])

\* C15: calls of parse_response made at once share nothing: however their
\* statements interleave, a call's argument stays what the caller passed and
\* the call ends, returning or raising, exactly as it does when it is the
\* only call.
C15_Isolation ==
    \A c \in CallIds :
        /\ calls[c].arg = InputValue(calls[c].inp)
        /\ calls[c].at \in {"returned", "raised"} =>
              LET alone == parse_response(calls[c].arg)
              IN  /\ calls[c].err = alone.err
                  /\ calls[c].out.type = alone.out.type
                  /\ calls[c].out = alone.out

\* two calls in the middle of their bodies at once, each holding the table it
\* parsed, and the two tables differ
C15_Witness ==
    /\ calls[1].at = "table_data"
    /\ calls[2].at = "table_data"
    /\ Local(1).table.data # <<>>
    /\ Local(2).table.data # <<>>
    /\ Local(1).table.data # Local(2).table.data

----------------------------------------------------------------------------
(* parse_table statement by statement: its two for loops over the lines,   *)
(* the while loop that pops the empty parts of a row and the while loop    *)
(* that pops the leading blank lines of the remaining text.  lp holds the  *)
(* local names of the call; lp.pops and lp.drops count the iterations of   *)
(* the two while loops.                                                    *)

\* the lines of the free texts followed here
LoopLines ==
    { <<"a", " ", "|", " ", "b">>,
      <<"-", "-", "-", " ", "|", " ", "-", "-", "-">>,
      <<"1", "|", "2">>,
      <<"|">>,
      <<>> }

\* the lines after the table of the other texts followed here
LoopTails == {<<>>} \cup SeqsUpTo({ <<>>, <<"{", "x">>, <<"x">> }, 2)

LoopInputs ==
    { [fam |-> "tail", enc |-> e, hdr |-> MergeHeader, rows |-> rs, tail |-> t] :
        rs \in MergeRows, t \in LoopTails, e \in {"padded", "mixed"} }
    \cup { [fam |-> "free", lines |-> ls] : ls \in SeqsUpTo(LoopLines, MaxLines) }

\* lines = text.strip().splitlines(), and the other local names unset
LoopStart(text) ==
    [at |-> "begin", text |-> text, lines |-> str_splitlines(str_strip(text)),
     i |-> 0, cur |-> -1,
     secs |-> <<>>, hdrs |-> <<>>, body |-> <<>>, line |-> <<>>,
     parts |-> <<>>, pops |-> 0, data |-> <<>>, rest |-> <<>>, drops |-> 0,
     additional |-> <<>>, exc |-> "none"]

\* parse_table(text) is called
LoopInit ==
    /\ \E i \in LoopInputs : lp = LoopStart(InputValue(i).text)
    /\ OneCallIdle
    /\ NoCalls
    /\ NoServices

LoopTo(next) ==
    /\ lp' = next
    /\ UNCHANGED <<inp, raw, pc, result, exc, called, tbl, calls, frames, sc, bk, pm, ld>>

\* if len(lines) < 2: return [], ""
Begin ==
    /\ lp.at = "begin"
    /\ IF Len(lp.lines) < 2
       THEN LoopTo([lp EXCEPT !.at = "done"])
       ELSE LoopTo([lp EXCEPT !.at = "scan"])

\* one turn of: for i, line in enumerate(lines)
ScanStep ==
    /\ lp.at = "scan"
    /\ lp.i < Len(lp.lines)
    /\ IF IsCandidate(lp.lines, lp.i, FALSE)
       THEN LoopTo([lp EXCEPT
                      !.secs = IF lp.cur >= 0
                               THEN Append(lp.secs, <<lp.cur, lp.i - 1>>)
                               ELSE lp.secs,
                      !.cur = lp.i - 1,
                      !.i = lp.i + 1])
       ELSE LoopTo([lp EXCEPT !.i = lp.i + 1])

\* the loop is over: if current_section_start >= 0 the end of the last
\* section is looked for; with no section at all, return [], text
ScanEnd ==
    /\ lp.at = "scan"
    /\ lp.i >= Len(lp.lines)
    /\ IF lp.cur >= 0
       THEN LoopTo([lp EXCEPT !.at = "end", !.i = lp.cur + 2])
       ELSE LoopTo([lp EXCEPT !.at = "done", !.additional = lp.text])

\* one turn of: for i in range(current_section_start + 2, len(lines)), with
\* its two breaks
EndStep ==
    /\ lp.at = "end"
    /\ lp.i < Len(lp.lines)
    /\ LET blank(j) == str_strip(lp.lines[j + 1]) = <<>>
           stops == \/ /\ blank(lp.i)
                       /\ \E j \in (lp.i + 1)..(Len(lp.lines) - 1) : ~blank(j)
                    \/ /\ ~blank(lp.i)
                       /\ str_strip(lp.lines[lp.i + 1])[1] = "{"
       IN  IF stops
           THEN LoopTo([lp EXCEPT !.at = "headers",
                                  !.secs = Append(lp.secs, <<lp.cur, lp.i>>)])
           ELSE LoopTo([lp EXCEPT !.i = lp.i + 1])

\* the range is exhausted: section_end = len(lines)
EndExhausted ==
    /\ lp.at = "end"
    /\ lp.i >= Len(lp.lines)
    /\ LoopTo([lp EXCEPT !.at = "headers",
                         !.secs = Append(lp.secs, <<lp.cur, Len(lp.lines)>>)])

\* header_line, separator_line = first_section_lines[0], first_section_lines[1]
\* and the headers; the body lines of all sections are what the nested for
\* loops go through
ReadHeaders ==
    /\ lp.at = "headers"
    /\ LET first == Slice(lp.lines, lp.secs[1][1], lp.secs[1][2])
       IN  IF Len(first) < 2
           THEN LoopTo([lp EXCEPT !.at = "raised", !.exc = "IndexError"])
           ELSE LoopTo([lp EXCEPT !.at = "rows",
                                  !.hdrs = pipe_headers(first[1]),
                                  !.body = SectionBodies(lp.lines, lp.secs)])

\* one turn of: for line in section_lines[2:], up to the while loop
RowStart ==
    /\ lp.at = "rows"
    /\ lp.body # <<>>
    /\ LET line == Head(lp.body)
       IN  IF Range(str_strip(line)) = {"|"}
           THEN LoopTo([lp EXCEPT !.body = Tail(lp.body)])
           ELSE LoopTo([lp EXCEPT !.at = "pop",
                                  !.body = Tail(lp.body),
                                  !.line = line,
                                  !.parts = StripAll(str_split(line, "|")),
                                  !.pops = 0])

\* a pop() that removes nothing
PopLast_Keep(parts) == parts

\* parts.pop()
PopLast(parts) == SubSeq(parts, 1, Len(parts) - 1)

\* one turn of: while parts and not parts[-1]
PopStep ==
    /\ lp.at = "pop"
    /\ lp.parts # <<>> /\ lp.parts[Len(lp.parts)] = <<>>
    /\ LoopTo([lp EXCEPT !.parts = PopLast(lp.parts), !.pops = lp.pops + 1])

\* the while loop is over: if len(parts) == len(headers): data.append(row)
PopEnd ==
    /\ lp.at = "pop"
    /\ ~(lp.parts # <<>> /\ lp.parts[Len(lp.parts)] = <<>>)
    /\ IF RowMatches(lp.parts, lp.hdrs)
       THEN LoopTo([lp EXCEPT !.at = "rows",
                              !.data = Append(lp.data, dict_zip(lp.hdrs, lp.parts))])
       ELSE LoopTo([lp EXCEPT !.at = "rows"])

\* additional_lines = lines[last_section_end:]
RowsEnd ==
    /\ lp.at = "rows"
    /\ lp.body = <<>>
    /\ LoopTo([lp EXCEPT !.at = "drop",
                         !.rest = SliceFrom(lp.lines, lp.secs[Len(lp.secs)][2]),
                         !.drops = 0])

\* one turn of: while additional_lines and not additional_lines[0].strip()
DropStep ==
    /\ lp.at = "drop"
    /\ lp.rest # <<>> /\ str_strip(lp.rest[1]) = <<>>
    /\ LoopTo([lp EXCEPT !.rest = Tail(lp.rest), !.drops = lp.drops + 1])

\* the while loop is over: additional_content = '\n'.join(additional_lines)
DropEnd ==
    /\ lp.at = "drop"
    /\ ~(lp.rest # <<>> /\ str_strip(lp.rest[1]) = <<>>)
    /\ LoopTo([lp EXCEPT !.at = "done", !.additional = str_join(lp.rest)])

LoopNext ==
    \/ Begin
    \/ ScanStep
    \/ ScanEnd
    \/ EndStep
    \/ EndExhausted
    \/ ReadHeaders
    \/ RowStart
    \/ PopStep
    \/ PopEnd
    \/ RowsEnd
    \/ DropStep
    \/ DropEnd

\* a call that has begun goes on: the interpreter runs the next statement
LoopSpec == LoopInit /\ [][LoopNext]_vars /\ WF_vars(LoopNext)

LoopOver == lp.at \in {"done", "raised"}

\* every loop has made no more turns than there are lines, or parts in the row
LoopsBounded ==
    /\ lp.at \in {"scan", "end"} => lp.i <= Len(lp.lines)
    /\ lp.at = "end" => lp.i >= lp.cur + 2
    /\ lp.pops <= Len(str_split(lp.line, "|"))
    /\ lp.drops <= Len(lp.lines)

\* C16: a call terminates: the section scan and the section-end scan make at
\* most one turn per line, the loop that pops the trailing empty parts at most
\* one turn per part of the row, the loop that pops the leading blank lines at
\* most one turn per line, and the call comes to its return (or to the
\* exception of C17).
C16_Terminates == []LoopsBounded /\ <>LoopOver

\* a call that returned after each of the four loops made a turn
C16_Witness ==
    /\ lp.at = "done"
    /\ lp.secs # <<>>
    /\ lp.secs[Len(lp.secs)][2] > lp.secs[Len(lp.secs)][1] + 2
    /\ lp.pops > 0
    /\ lp.drops > 0
    /\ lp.data # <<>>

\* the column names read off the first section found: its header line, cut
\* at "|" or at the offsets of its separator line
FirstColumns ==
    LET header    == ParsedLines[tbl.sections[1][1] + 1]
        separator == ParsedLines[tbl.sections[1][1] + 2]
    IN  IF "parse_table_fixed" \in called
        THEN fixed_headers(header, split_boundaries(separator))
        ELSE pipe_headers(header)

\* C21: the column names come from the first section only, whatever the
\* headers of the later sections are: every record of the output, from
\* whichever section, has the first section's column names as its keys.
C21_FirstSectionSchema ==
    (Decoded /\ tbl.exc = "none") =>
        /\ tbl.headers = FirstColumns
        /\ \A k \in 1..Len(tbl.data) : DOMAIN tbl.data[k] = Range(FirstColumns)

\* two sections with different headers, records from both, and the last
\* record, a row of the second section, under the first section's names
C21_Witness ==
    /\ Decoded
    /\ pc = "returned"
    /\ inp.fam = "two"
    /\ inp.enc = "mixed"
    /\ Len(tbl.sections) = 2
    /\ Len(result.data) = Len(inp.rows1) + Len(inp.rows2)
    /\ DOMAIN result.data[Len(result.data)] = {<<"a">>, <<"b">>}

\* the record a body line gives, as a list of no or one record
LineRecords(line) ==
    IF ~OnlyPipes(line) /\ FieldCount(line) = Len(tbl.headers)
    THEN <<dict_zip(tbl.headers, Fields(line))>>
    ELSE <<>>

\* recs can be read off the lines ls going down the text once, each line
\* giving at most one record, in the order of the lines
RECURSIVE InSourceOrder(_, _)
InSourceOrder(recs, ls) ==
    IF recs = <<>> THEN TRUE
    ELSE IF ls = <<>> THEN FALSE
    ELSE IF LineRecords(ls[1]) = <<recs[1]>>
         THEN InSourceOrder(Tail(recs), Tail(ls))
         ELSE InSourceOrder(recs, Tail(ls))

\* C22: the records keep the order of the text: the sections lie one after
\* the other in the text, and the record list can be read off the body lines
\* going down the text once, each record from a body line of its own and no
\* body line giving more than one record.
C22_SourceOrder ==
    (Decoded /\ tbl.exc = "none") =>
        /\ \A k \in 1..(Len(tbl.sections) - 1) :
              tbl.sections[k][2] <= tbl.sections[k + 1][1]
        /\ Len(tbl.data) <= Len(BodyLines)
        /\ InSourceOrder(tbl.data, BodyLines)

\* two sections, and records that differ so that their order shows
C22_Witness ==
    /\ Decoded
    /\ pc = "returned"
    /\ Len(tbl.sections) = 2
    /\ Len(result.data) >= 3
    /\ result.data[1] # result.data[Len(result.data)]
    /\ result.data[1] # result.data[2]

\* C23: in pipe mode, a header line, a separator line and body rows make one
\* section, and every body row is offered to the row decoder, also when the
\* rows are written with spaces around "|": no body row is taken as the header
\* or the separator of a new section.
C23_RowsStayRows ==
    (/\ inp.fam = "enc"
     /\ inp.enc = "padded"
     /\ FullTable(inp.hdr, inp.rows)
     /\ "parse_table" \in called)
        => /\ tbl.sections = <<<<0, Len(inp.rows) + 2>>>>
           /\ BodyLines = [i \in 1..Len(inp.rows) |-> EncodeLine(inp.rows[i], inp.enc)]

\* C24: in pipe mode a body row with the right number of "|" whose last cell
\* is empty gives a record with the empty string for that cell: a table whose
\* rows are such rows, or full rows, comes back with one record per row.
C24_EmptyLastCell ==
    (/\ Terminal
     /\ inp.fam = "tail"
     /\ inp.enc = "mixed"
     /\ inp.tail = <<>>
     /\ "parse_table" \in called)
        => /\ pc = "returned"
           /\ IsTableOf(result, inp.hdr, inp.rows)

\* C25: in fixed mode a separator of N dash tokens separated by single spaces
\* yields N columns: for a full table written in the fixed layout the decoder
\* derives as many column names as the table has headers.
C25_FixedColumnCount ==
    (/\ inp.fam = "enc"
     /\ inp.enc = "fixed"
     /\ FullTable(inp.hdr, inp.rows)
     /\ "parse_table_fixed" \in called
     /\ tbl.exc = "none")
        => Len(tbl.headers) = Len(inp.hdr)

\* C26: in fixed mode a blank line inside a section's range produces no
\* record, a record is emitted only for a line that carries cell text: there
\* are at most as many records as body lines that are not blank.
FixedRowLines == { i \in 1..Len(BodyLines) : str_strip(BodyLines[i]) # <<>> }

C26_FixedSkipsBlank ==
    (/\ Decoded
     /\ "parse_table_fixed" \in called
     /\ tbl.exc = "none")
        => Len(tbl.data) <= Cardinality(FixedRowLines)

----------------------------------------------------------------------------
(* send_command: the handler of POST /send-command/ in main.py            *)

\* a response that is an object with type "error"
IsErrorResponse(raw_response) ==
    /\ raw_response.t = "dict"
    /\ "type" \in DOMAIN raw_response.dict
    /\ raw_response.dict["type"] = JStr("error")

\* what make_request may return: texts and values as parse_response is
\* given, and objects that carry a type
SendResponses ==
    { InputValue(i) : i \in ConcInputs }
    \cup { JDict([k \in K |-> IF k = "type" THEN JStr(ty) ELSE JNum(3)]) :
             K \in { {"type"}, {"type", "data"}, {"type", "blobs"} },
             ty \in { "error", "ok" } }

\* what make_request may raise
RequestErrors ==
    { [type |-> "ConnectionError", message |-> "refused"],
      [type |-> "HTTPException", message |-> ""] }

NoError == [type |-> "none", message |-> ""]

\* the envelope built by the except clause
error_envelope_NoLocation(e, command, conn) ==
    [type |-> "error",
     data |-> <<"Backend error: ", e.message>>,
     error_details |->
        [error_type |-> e.type,
         error_message |-> e.message,
         command |-> command,
         connection |-> conn]]

error_envelope(e, command, conn) ==
    [type |-> "error",
     data |-> <<"Backend error: ", e.message>>,
     error_details |->
        [error_type |-> e.type,
         error_message |-> e.message,
         command |-> command,
         connection |-> conn,
         location |-> "main.py send_command"]]

\* a request arrives, the feature "client" being enabled or not; the
\* command may carry blanks around it
SendInit ==
    /\ sc \in { [at |-> "check", feature |-> f, conn |-> c, cmd |-> m,
                 sent |-> <<>>, raw |-> JNull, e |-> NoError,
                 out |-> NoResult] :
                  f \in BOOLEAN, c \in { "10.0.0.1:32049", "10.0.0.2:32049" },
                  m \in { <<"x">>, <<" ", "x", " ">> } }
    /\ OneCallIdle /\ NoCalls /\ NoLoop
    /\ bk = [at |-> "idle"] /\ pm = [at |-> "idle"] /\ ld = [at |-> "idle"]

SendTo(next) ==
    /\ sc' = next
    /\ UNCHANGED <<inp, raw, pc, result, exc, called, tbl, calls, frames, lp,
                   bk, pm, ld>>

\* if not is_feature_enabled("client"): raise HTTPException(403)
FeatureCheck ==
    /\ sc.at = "check"
    /\ IF sc.feature
       THEN SendTo([sc EXCEPT !.at = "request"])
       ELSE SendTo([sc EXCEPT !.at = "raised",
                              !.e = [type |-> "HTTPException",
                                     message |-> "Feature 'client' is disabled"]])

\* raw_response = make_request(conn.conn, command.type, command.cmd.strip()):
\* the call returns a response or raises
MakeRequest ==
    /\ sc.at = "request"
    /\ \/ \E r \in SendResponses :
            SendTo([sc EXCEPT !.at = "inspect", !.sent = str_strip(sc.cmd),
                              !.raw = r])
       \/ \E e \in RequestErrors :
            SendTo([sc EXCEPT !.at = "except", !.sent = str_strip(sc.cmd),
                              !.e = e])

\* if isinstance(raw_response, dict) and raw_response.get("type") == "error":
\*     return raw_response
ErrorResponse ==
    /\ sc.at = "inspect"
    /\ IsErrorResponse(sc.raw)
    /\ SendTo([sc EXCEPT !.at = "returned", !.out = sc.raw])

\* structured_data = parse_response(raw_response); return structured_data.
\* The message of an exception of parse_response is not followed and stands
\* as the name of the function.
ParseResponse ==
    /\ sc.at = "inspect"
    /\ ~IsErrorResponse(sc.raw)
    /\ LET r == parse_response(sc.raw)
       IN  IF r.err = "none"
           THEN SendTo([sc EXCEPT !.at = "returned", !.out = r.out])
           ELSE SendTo([sc EXCEPT !.at = "except",
                                    !.e = [type |-> r.err,
                                           message |-> "parse_response"]])

\* except Exception as e: return {"type": "error", ...}
Except ==
    /\ sc.at = "except"
    /\ SendTo([sc EXCEPT !.at = "returned",
                         !.out = error_envelope(sc.e, sc.cmd, sc.conn)])

SendNext ==
    \/ FeatureCheck
    \/ MakeRequest
    \/ ErrorResponse
    \/ ParseResponse
    \/ Except

SendSpec == SendInit /\ [][SendNext]_vars

SendOver == sc.at \in {"returned", "raised"}

\* C27: with the feature "client" enabled the handler of /send-command/
\* never raises: a response that is an object of type "error" is returned as
\* it is, whatever else it holds, and an exception of make_request or of
\* parse_response ends in an envelope of type "error" whose error_details
\* hold error_type, error_message, command, connection and location.
C27_NeverRaises ==
    (SendOver /\ sc.feature)
        => /\ sc.at = "returned"
           /\ IsErrorResponse(sc.raw) => sc.out = sc.raw /\ sc.e = NoError
           /\ sc.e # NoError =>
                /\ sc.out.type = "error"
                /\ DOMAIN sc.out.error_details =
                     {"error_type", "error_message", "command", "connection",
                      "location"}
                /\ sc.out.error_details.error_type = sc.e.type
                /\ sc.out.error_details.error_message = sc.e.message
                /\ sc.out.error_details.command = sc.cmd
                /\ sc.out.error_details.connection = sc.conn
           /\ (sc.e = NoError /\ ~IsErrorResponse(sc.raw)) =>
                sc.out = parse_response(sc.raw).out

\* an exception of parse_response was caught, and a response of type
\* "error" that parse_response would not take was passed through
C27_Witness ==
    /\ SendOver
    /\ sc.feature
    /\ \/ sc.e.type = "TypeError" /\ sc.raw = JNum(1) /\ sc.out.type = "error"
       \/ IsErrorResponse(sc.raw) /\ "blobs" \in DOMAIN sc.raw.dict
            /\ sc.out = sc.raw

----------------------------------------------------------------------------
(* file_auth: the bookmarks kept in bookmarks.json                         *)
(* A bookmark is followed by its node and its is_default flag; its id, its *)
(* description and its created_at are not.  The file is absent, or holds   *)
(* an object with or without the key "bookmarks"; under the key the code   *)
(* keeps a list.                                                           *)

BookNodes == { "n1", "n2", "n3" }

\* the file as save_json_file leaves it
FileOf(items) == [exists |-> TRUE, key |-> TRUE, items |-> items]

\* load_json_file(BOOKMARKS_FILE): the file's object, or _DEFAULTS' object
\* {"bookmarks": {}} when there is no file; kind is what stands under the
\* key "bookmarks"
load_json_file(file) ==
    IF ~file.exists THEN [kind |-> "dict", items |-> <<>>]
    ELSE IF ~file.key THEN [kind |-> "missing", items |-> <<>>]
    ELSE [kind |-> "list", items |-> file.items]

\* the index of the first bookmark of the node, 0 if there is none
IndexOf(items, node) ==
    LET at == { i \in 1..Len(items) : items[i].node = node }
    IN  IF at = {} THEN 0 ELSE SetMin(at)

Without(items, i) ==
    [j \in 1..(Len(items) - 1) |-> IF j < i THEN items[j] ELSE items[j + 1]]

BookInit ==
    /\ bk \in { [at |-> "ready", file |-> f,
                 ret |-> [op |-> "none", node |-> "none", out |-> "none",
                          was |-> f]] :
                  f \in { [exists |-> FALSE, key |-> FALSE, items |-> <<>>],
                          [exists |-> TRUE, key |-> FALSE, items |-> <<>>],
                          FileOf(<<>>) } }
    /\ OneCallIdle /\ NoCalls /\ NoLoop
    /\ sc = [at |-> "idle"] /\ pm = [at |-> "idle"] /\ ld = [at |-> "idle"]

\* the call ends: the file as it is left, and what the call gave back
BookDone(file, op, node, out) ==
    /\ bk' = [bk EXCEPT !.file = file,
                        !.ret = [op |-> op, node |-> node, out |-> out,
                                 was |-> bk.file]]
    /\ UNCHANGED <<inp, raw, pc, result, exc, called, tbl, calls, frames, lp,
                   sc, pm, ld>>

file_bookmark_node(node) ==
    LET data == load_json_file(bk.file)
        new_bookmark == [node |-> node, is_default |-> FALSE]
    IN  IF IndexOf(data.items, node) # 0
        THEN BookDone(bk.file, "file_bookmark_node", node, "already exists")
        ELSE IF data.kind = "dict"
        THEN BookDone(bk.file, "file_bookmark_node", node, "AttributeError")
        ELSE BookDone(FileOf(Append(data.items, new_bookmark)),
                      "file_bookmark_node", node, "bookmark")

file_delete_bookmarked_node(node) ==
    LET data == load_json_file(bk.file)
        i    == IndexOf(data.items, node)
    IN  IF data.kind # "missing" /\ i # 0
        THEN BookDone(FileOf(Without(data.items, i)),
                      "file_delete_bookmarked_node", node, "deleted")
        ELSE BookDone(bk.file, "file_delete_bookmarked_node", node, "not found")

file_set_default_bookmark(node) ==
    LET data == load_json_file(bk.file)
    IN  IF IndexOf(data.items, node) = 0
        THEN BookDone(bk.file, "file_set_default_bookmark", node, "not found")
        ELSE BookDone(FileOf([i \in 1..Len(data.items) |->
                                [data.items[i] EXCEPT
                                   !.is_default = (data.items[i].node = node)]]),
                      "file_set_default_bookmark", node, "default set")

BookNext ==
    \/ \E node \in BookNodes : file_bookmark_node(node)
    \/ \E node \in BookNodes : file_delete_bookmarked_node(node)
    \/ \E node \in BookNodes : file_set_default_bookmark(node)

BookSpec == BookInit /\ [][BookNext]_vars

\* C28: where there was no bookmarks file, file_bookmark_node(node) leaves a
\* store of exactly one bookmark, of that node and with is_default false,
\* and returns it; and whatever calls were made, the store has at most one
\* bookmark for a node and at most one bookmark with is_default true.
C28_BookmarkStore ==
    /\ (bk.ret.op = "file_bookmark_node" /\ ~bk.ret.was.exists)
          => /\ bk.ret.out = "bookmark"
             /\ bk.file.items = <<[node |-> bk.ret.node, is_default |-> FALSE]>>
    /\ \A i, j \in 1..Len(bk.file.items) :
          /\ bk.file.items[i].node = bk.file.items[j].node => i = j
          /\ (bk.file.items[i].is_default /\ bk.file.items[j].is_default) => i = j

----------------------------------------------------------------------------
(* PluginManager of src/plugins/loader.py: enable_plugin, disable_plugin   *)

PluginNames == { "example_plugin", "grafana", "kibana" }

\* list.remove(x): the list without its first x
list_remove_Keep(list, x) == list

list_remove(list, x) ==
    LET at == { i \in 1..Len(list) : list[i] = x }
    IN  IF at = {} THEN list
        ELSE [j \in 1..(Len(list) - 1) |->
                IF j < SetMin(at) THEN list[j] ELSE list[j + 1]]

\* the manager is built where there is no plugin_config.json: _load_config
\* returns the default config, whose two lists are empty
ManagerInit ==
    /\ pm = [at |-> "ready",
             enabled_plugins |-> <<>>,
             disabled_plugins |-> <<>>,
             last |-> [p \in PluginNames |-> "none"],
             ret |-> [op |-> "none", name |-> "none", changed |-> FALSE,
                      moved |-> FALSE]]
    /\ OneCallIdle /\ NoCalls /\ NoLoop
    /\ sc = [at |-> "idle"] /\ bk = [at |-> "idle"] /\ ld = [at |-> "idle"]

\* the call ends: the two lists as they are left; changed is what the call
\* returns, moved whether it took the name out of the other list
ManagerDone(enabled, disabled, op, name, changed, moved) ==
    /\ pm' = [pm EXCEPT !.enabled_plugins = enabled,
                        !.disabled_plugins = disabled,
                        !.last[name] = op,
                        !.ret = [op |-> op, name |-> name,
                                 changed |-> changed, moved |-> moved]]
    /\ UNCHANGED <<inp, raw, pc, result, exc, called, tbl, calls, frames, lp,
                   sc, bk, ld>>

enable_plugin(plugin_name) ==
    IF plugin_name \notin Range(pm.enabled_plugins)
    THEN ManagerDone(Append(pm.enabled_plugins, plugin_name),
                     list_remove(pm.disabled_plugins, plugin_name),
                     "enable_plugin", plugin_name, TRUE,
                     plugin_name \in Range(pm.disabled_plugins))
    ELSE ManagerDone(pm.enabled_plugins, pm.disabled_plugins,
                     "enable_plugin", plugin_name, FALSE, FALSE)

disable_plugin(plugin_name) ==
    IF plugin_name \notin Range(pm.disabled_plugins)
    THEN ManagerDone(list_remove(pm.enabled_plugins, plugin_name),
                     Append(pm.disabled_plugins, plugin_name),
                     "disable_plugin", plugin_name, TRUE,
                     plugin_name \in Range(pm.enabled_plugins))
    ELSE ManagerDone(pm.enabled_plugins, pm.disabled_plugins,
                     "disable_plugin", plugin_name, FALSE, FALSE)

ManagerNext ==
    \/ \E p \in PluginNames : enable_plugin(p)
    \/ \E p \in PluginNames : disable_plugin(p)

ManagerSpec == ManagerInit /\ [][ManagerNext]_vars

NoDuplicates(list) == \A i, j \in 1..Len(list) : list[i] = list[j] => i = j

\* C29: from the default config, after any calls of enable_plugin and
\* disable_plugin the lists enabled_plugins and disabled_plugins have no
\* name in common and no name twice, and a plugin is in enabled_plugins
\* exactly when the last call made for it was enable_plugin, in
\* disabled_plugins exactly when it was disable_plugin.
C29_EnabledDisabled ==
    /\ Range(pm.enabled_plugins) \cap Range(pm.disabled_plugins) = {}
    /\ NoDuplicates(pm.enabled_plugins)
    /\ NoDuplicates(pm.disabled_plugins)
    /\ \A p \in PluginNames :
          /\ p \in Range(pm.enabled_plugins) <=> pm.last[p] = "enable_plugin"
          /\ p \in Range(pm.disabled_plugins) <=> pm.last[p] = "disable_plugin"

\* a plugin that was disabled has been enabled again, while another one is
\* disabled and a third was enabled before it
C29_Witness ==
    /\ pm.ret.op = "enable_plugin"
    /\ pm.ret.moved
    /\ pm.ret.name \in Range(pm.enabled_plugins)
    /\ Len(pm.enabled_plugins) = 2
    /\ Len(pm.disabled_plugins) = 1

----------------------------------------------------------------------------
(* load_plugins of the backend's plugins/loader.py                         *)

\* the plugin folders that may be found, in alphabetical order
FolderNames == <<"cli", "grafana", "kibana">>

\* the longest plugin_order list followed
MaxOrder == 3

\* sorted(names), for names among the folder names
sorted(names) == SelectSeq(FolderNames, LAMBDA n : n \in names)

\* the loop over plugin_order: every listed name that is a folder is appended
RECURSIVE ordered_plugins(_, _)
ordered_plugins(plugin_order, folders) ==
    IF plugin_order = <<>> THEN <<>>
    ELSE IF plugin_order[1] \in folders
         THEN <<plugin_order[1]>> \o ordered_plugins(Tail(plugin_order), folders)
         ELSE ordered_plugins(Tail(plugin_order), folders)

\* plugin_names as load_plugins settles it; an order list that is missing
\* or empty gives the alphabetical order
plugin_names(plugin_order, folders) ==
    IF plugin_order # <<>>
    THEN ordered_plugins(plugin_order, folders)
            \o sorted(folders \ Range(plugin_order))
    ELSE sorted(folders)

\* load_plugins is called: the folders with a router file, and the list of
\* plugin_order.json, <<>> when get_plugin_order returns None; a name may be
\* listed though there is no folder of it
LoaderInit ==
    /\ ld \in { [at |-> "plan", folders |-> fs, plugin_order |-> o,
                 names |-> <<>>, i |-> 1, attempts |-> <<>>,
                 loaded_plugins |-> <<>>] :
                  fs \in SUBSET Range(FolderNames),
                  o \in {<<>>} \cup SeqsUpTo({"kibana", "cli", "ghost"}, MaxOrder) }
    /\ OneCallIdle /\ NoCalls /\ NoLoop
    /\ sc = [at |-> "idle"] /\ bk = [at |-> "idle"] /\ pm = [at |-> "idle"]

LoaderTo(next) ==
    /\ ld' = next
    /\ UNCHANGED <<inp, raw, pc, result, exc, called, tbl, calls, frames, lp,
                   sc, bk, pm>>

\* the folders are listed and the order is settled
PlanOrder ==
    /\ ld.at = "plan"
    /\ LoaderTo([ld EXCEPT !.at = "loop",
                           !.names = plugin_names(ld.plugin_order, ld.folders)])

\* for plugin_name in plugin_names: is_plugin_enabled(plugin_name) is false
SkipDisabled ==
    /\ ld.at = "loop"
    /\ ld.i <= Len(ld.names)
    /\ LoaderTo([ld EXCEPT !.i = ld.i + 1])

\* the module is imported and its api_router included
ImportLoaded ==
    /\ ld.at = "loop"
    /\ ld.i <= Len(ld.names)
    /\ LoaderTo([ld EXCEPT !.i = ld.i + 1,
                           !.attempts = Append(ld.attempts, ld.names[ld.i]),
                           !.loaded_plugins =
                               Append(ld.loaded_plugins, ld.names[ld.i])])

\* the import raises, or the module has no api_router that is an APIRouter
ImportFails ==
    /\ ld.at = "loop"
    /\ ld.i <= Len(ld.names)
    /\ LoaderTo([ld EXCEPT !.i = ld.i + 1,
                           !.attempts = Append(ld.attempts, ld.names[ld.i])])

\* return loaded_plugins
LoaderReturns ==
    /\ ld.at = "loop"
    /\ ld.i > Len(ld.names)
    /\ LoaderTo([ld EXCEPT !.at = "done"])

LoaderNext ==
    \/ PlanOrder
    \/ SkipDisabled
    \/ ImportLoaded
    \/ ImportFails
    \/ LoaderReturns

LoaderSpec == LoaderInit /\ [][LoaderNext]_vars

\* the listed names that are folders, each once, in the order of their first
\* listing, then the other folders in alphabetical order
RECURSIVE ListedOnce(_, _)
ListedOnce(plugin_order, folders) ==
    IF plugin_order = <<>> THEN <<>>
    ELSE IF plugin_order[1] \in folders
         THEN <<plugin_order[1]>>
                 \o ListedOnce(Tail(plugin_order), folders \ {plugin_order[1]})
         ELSE ListedOnce(Tail(plugin_order), folders)

StatedOrder ==
    ListedOnce(ld.plugin_order, ld.folders)
        \o sorted(ld.folders \ Range(ld.plugin_order))

RECURSIVE IsSubsequence(_, _)
IsSubsequence(s, t) ==
    IF s = <<>> THEN TRUE
    ELSE IF t = <<>> THEN FALSE
    ELSE IF s[1] = t[1] THEN IsSubsequence(Tail(s), Tail(t))
         ELSE IsSubsequence(s, Tail(t))

\* C30: load_plugins attempts a plugin folder at most once, and the attempts
\* follow the stated order: the listed names that are folders in listed
\* order, then the remaining folders alphabetically; whatever list
\* plugin_order.json holds, a list naming a plugin twice included.
C30_LoadOrder ==
    ld.at = "done"
        => /\ NoDuplicates(ld.attempts)
           /\ IsSubsequence(ld.attempts, StatedOrder)

====
